---- MODULE Spec2Model ----
(***************************************************************************)
(* A model of the Uno engine of src/src/game.rs: the card model, the       *)
(* infinite deck, the lobby and the game state machine, driven by a client *)
(* that calls the public operations in any order, and of main() of         *)
(* src/src/main.rs, the client that plays the game from the terminal.      *)
(***************************************************************************)
EXTENDS Integers, Sequences, FiniteSets, TLC

VARIABLES
    phase,                     \* "lobby": a Lobby exists; "game": a Game exists; "consumed": start() failed
    players,                   \* Vec<Player>: sequence of [name, cards]
    current_player_idx,        \* Game.current_player_idx (0-based)
    turn_direction_reversed,   \* Game.turn_direction_reversed
    top_card,                  \* Game.top_card: Option<Card>
    calls,                     \* the calls made on the live object, each with its result;
                               \* main() starts the log again at each of its card prompts
    pc,                        \* main(): the call site it has reached
    inputs                     \* main(): the lines it has answered at the card prompt

vars == <<phase, players, current_player_idx, turn_direction_reversed, top_card, calls,
          pc, inputs>>

(***************************************************************************)
(* Bounds of the model.                                                    *)
(***************************************************************************)
\* calls of add_player explored on one Lobby
MaxLobbyCalls == 4
\* calls explored on one Game after start(), any operation
MaxOps == 2
\* calls explored on one Game after start() when only the turn order is driven
MaxTurnCalls == 5
\* iterations explored of the loop that draws the starting top card
MaxRedraw == 2

\* the user names offered to add_player
Names == {"", "A", "a"}

\* runs of consecutive outputs of the generator, as card seeds: a deal takes seven
\* per player, a penalty draw takes the first ones
SeedRuns == { <<5, 32, 61, 19, 25, 26, 77,   88, 48, 14, 0, 52, 100, 35,
                21, 73, 9, 104, 46, 60, 107>>,
              <<88, 35, 60, 100, 48, 73, 104,   25, 26, 52, 5, 5, 14, 32,
                0, 1, 2, 3, 4, 6, 7>> }

\* the seeds a single draw_one() may see
DrawSeeds == {5, 61, 46, 21, 77, 25, 26}

\* the seeds the starting top card loop may see
TopSeeds == {5, 46, 25, 26}

\* the arguments given to draw_multiple
DrawCounts == {0, 2, 4}

\* lines answered at the card prompt of main() in one explored game
MaxInputs == 2

\* the seeds the starting top card loop may see when main() starts the game
MainTopSeeds == {5, 46, 21, 77, 25, 26}

\* lines answered at the card prompt of main() in a game followed to its end
MaxWinInputs == 7

\* the names, deals, starting cards and drawn cards of such a game
WinNames == {"A", "a"}
WinRuns == { <<19, 46, 73, 100, 19, 46, 73,   5, 32, 5, 32, 5, 32, 5,
               21, 73, 9, 104, 46, 60, 107>> }
WinTopSeeds == {46, 25}
WinDrawSeeds == {21, 26}

\* the seeds a draw_one() of main() may see
MainDrawSeeds == {61, 46, 21, 77, 25, 26}

(***************************************************************************)
(* Card model.                                                             *)
(***************************************************************************)
Colors == {"Red", "Green", "Blue", "Yellow", "Unpicked"}

Number(n) == [tag |-> "Number", value |-> n]
Skip == [tag |-> "Skip", value |-> 0]
Reverse == [tag |-> "Reverse", value |-> 0]
DrawTwo == [tag |-> "DrawTwo", value |-> 0]
Wildcard == [tag |-> "Wildcard", value |-> 0]
DrawFourWildcard == [tag |-> "DrawFourWildcard", value |-> 0]

Card(card_type, color) == [card_type |-> card_type, color |-> color]

None == << >>
Some(x) == << x >>

\* a rule that lets any number go on any number
is_playable_on_any_number(self, card) ==
    LET t1 == self.card_type
        t2 == card.card_type
    IN  IF t1 = Wildcard \/ t1 = DrawFourWildcard THEN TRUE
        ELSE IF t1 = Skip /\ t2 = Skip THEN TRUE
        ELSE IF t1 = Reverse /\ t2 = Reverse THEN TRUE
        ELSE IF t1 = DrawTwo /\ t2 = DrawTwo THEN TRUE
        ELSE IF t1.tag = "Number" /\ t2.tag = "Number" THEN TRUE
        ELSE self.color = card.color

is_playable_on(self, card) ==
    LET t1 == self.card_type
        t2 == card.card_type
    IN  IF t1 = Wildcard \/ t1 = DrawFourWildcard THEN TRUE
        ELSE IF t1 = Skip /\ t2 = Skip THEN TRUE
        ELSE IF t1 = Reverse /\ t2 = Reverse THEN TRUE
        ELSE IF t1 = DrawTwo /\ t2 = DrawTwo THEN TRUE
        ELSE IF t1.tag = "Number" /\ t2.tag = "Number" /\ t1.value = t2.value THEN TRUE
        ELSE self.color = card.color

(***************************************************************************)
(* Card source: the card of one generator output (card_seed in 0..107).    *)
(***************************************************************************)
SeedMax == 107

\* the arm unreachable!() of a match: the draw panics
Unreachable == [tag |-> "unreachable", value |-> 0]

\* a layout whose second run of numbers starts one too low
seed_card_type_low(card_seed) ==
    LET s == card_seed % 27
    IN  IF s = 0 THEN Number(0)
        ELSE IF s <= 9 THEN Number(s)
        ELSE IF s <= 18 THEN Number(s - 10)
        ELSE IF s <= 20 THEN Skip
        ELSE IF s <= 22 THEN Reverse
        ELSE IF s <= 24 THEN DrawTwo
        ELSE IF s = 25 THEN Wildcard
        ELSE IF s = 26 THEN DrawFourWildcard
        ELSE Unreachable

seed_card_type(card_seed) ==
    LET s == card_seed % 27
    IN  IF s = 0 THEN Number(0)
        ELSE IF s <= 9 THEN Number(s)
        ELSE IF s <= 18 THEN Number(s - 9)
        ELSE IF s <= 20 THEN Skip
        ELSE IF s <= 22 THEN Reverse
        ELSE IF s <= 24 THEN DrawTwo
        ELSE IF s = 25 THEN Wildcard
        ELSE IF s = 26 THEN DrawFourWildcard
        ELSE Unreachable

seed_color(card_seed) ==
    LET c == card_seed \div 27
    IN  IF c = 0 THEN "Red"
        ELSE IF c = 1 THEN "Green"
        ELSE IF c = 2 THEN "Blue"
        ELSE IF c = 3 THEN "Yellow"
        ELSE "unreachable"

\* a draw that gives the wildcards the colour of their seed
draw_colored(card_seed) ==
    Card(seed_card_type(card_seed), seed_color(card_seed))

draw(card_seed) ==
    LET card_type == seed_card_type(card_seed)
    IN  IF card_type = Wildcard \/ card_type = DrawFourWildcard
        THEN Card(card_type, "Unpicked")
        ELSE Card(card_type, seed_color(card_seed))

(***************************************************************************)
(* Helpers on the state.                                                   *)
(***************************************************************************)
HandSize == 7

Player(name, cards) == [name |-> name, cards |-> cards]

\* a remove that drops the last element whatever the index
vec_remove_last(v, index) ==
    [k \in 1..(Len(v) - 1) |-> v[k]]

\* Vec::remove(index), index 0-based
vec_remove(v, index) ==
    [k \in 1..(Len(v) - 1) |-> IF k <= index THEN v[k] ELSE v[k + 1]]

\* push the cards of the first n seeds of a run
push_draws(cards, seeds, n) ==
    cards \o [k \in 1..n |-> draw(seeds[k])]

\* the seeds the generator hands to the k-th player of a deal
deal_seeds(run, k) == SubSeq(run, HandSize * (k - 1) + 1, HandSize * k)

Call(op, arg, val, idx, rev) ==
    [op |-> op, arg |-> arg, val |-> val, idx |-> idx, rev |-> rev]

\* a step that wraps one place too late
array_next_index_late(index, length, reversed) ==
    IF reversed
    THEN (IF index = 0 THEN length - 1 ELSE index - 1)
    ELSE (IF index = length THEN 0 ELSE index + 1)

array_next_index(index, length, reversed) ==
    IF reversed
    THEN (IF index = 0 THEN length - 1 ELSE index - 1)
    ELSE (IF index = length - 1 THEN 0 ELSE index + 1)

Init ==
    /\ phase = "lobby"
    /\ players = << >>
    /\ current_player_idx = 0
    /\ turn_direction_reversed = FALSE
    /\ top_card = None
    /\ calls = << >>
    /\ pc = "username"
    /\ inputs = 0

(***************************************************************************)
(* Lobby.                                                                  *)
(***************************************************************************)
\* a comparison of names that ignores case
taken_names_nocase(ps) ==
    { ps[k].name : k \in 1..Len(ps) } \cup
    { IF ps[k].name = "A" THEN "a" ELSE IF ps[k].name = "a" THEN "A" ELSE ps[k].name :
        k \in 1..Len(ps) }

\* the names add_player(username) finds taken
taken_names(ps) == { ps[k].name : k \in 1..Len(ps) }

\* add_player with one of names
add_player_from(names) ==
    /\ phase = "lobby"
    /\ Len(calls) < MaxLobbyCalls
    /\ \E username \in names :
         LET username_available == username \notin taken_names(players)
         IN  /\ players' = IF username_available
                           THEN Append(players, Player(username, << >>))
                           ELSE players
             /\ calls' = Append(calls, Call("add_player", <<username>>, <<username_available>>, 0, FALSE))
    /\ UNCHANGED <<phase, current_player_idx, turn_direction_reversed, top_card>>

add_player == add_player_from(Names)

\* a deal that stops one card short
deal_cards_short(ps, run) ==
    [k \in 1..Len(ps) |->
        Player(ps[k].name, push_draws(ps[k].cards, deal_seeds(run, k), HandSize - 1))]

\* Game::start, the deal: 7 cards to each player, in order
deal_cards(ps, run) ==
    [k \in 1..Len(ps) |->
        Player(ps[k].name, push_draws(ps[k].cards, deal_seeds(run, k), HandSize))]

\* a top card loop that accepts any card
needs_top_any(top) ==
    top = None

needs_top(top) ==
    top = None \/ top[1].card_type = DrawFourWildcard

\* Game::start, the loop that draws the top card: <<top card, seeds left>>
RECURSIVE top_loop(_, _)
top_loop(top, seeds) ==
    IF needs_top(top) /\ seeds # << >>
    THEN top_loop(Some(draw(Head(seeds))), Tail(seeds))
    ELSE <<top, seeds>>

\* the runs of seeds the top card loop may see
RunsOf(seeds) == UNION { [1..n -> seeds] : n \in 1..MaxRedraw }

TopRuns == RunsOf(TopSeeds)

\* Lobby::start when the generator deals one of runs and the top card loop
\* draws one of top_runs
Lobby_start_from(runs, top_runs) ==
    /\ phase = "lobby"
    /\ IF Len(players) < 2
       THEN /\ phase' = "consumed"
            /\ calls' = <<Call("start", << >>, <<"Err", "NotEnoughPlayers">>, 0, FALSE)>>
            /\ UNCHANGED <<players, current_player_idx, turn_direction_reversed, top_card>>
       ELSE \E deal \in runs,
               first \in 0..(Len(players) - 1),
               tops \in top_runs :
              LET done == top_loop(None, tops)
              IN  /\ done[2] = << >>
                  /\ ~ needs_top(done[1])
                  /\ phase' = "game"
                  /\ players' = deal_cards(players, deal)
                  /\ current_player_idx' = first
                  /\ turn_direction_reversed' = FALSE
                  /\ top_card' = done[1]
                  /\ calls' = <<Call("start", << >>, <<"Ok">>, first, FALSE)>>

Lobby_start == Lobby_start_from(SeedRuns, TopRuns)

(***************************************************************************)
(* Game.                                                                   *)
(***************************************************************************)
hand == players[current_player_idx + 1].cards

with_hand(cards) ==
    [players EXCEPT ![current_player_idx + 1].cards = cards]

\* the log a call is appended to: main() starts it again at its card prompt
since_prompt == IF pc = "prompt" THEN << >> ELSE calls

next_turn(cap) ==
    /\ phase = "game"
    /\ Len(calls) < 1 + cap
    /\ current_player_idx' = array_next_index(current_player_idx, Len(players),
                                              turn_direction_reversed)
    /\ calls' = Append(calls, Call("next_turn", << >>, << >>,
                                   current_player_idx', turn_direction_reversed))
    /\ UNCHANGED <<phase, players, turn_direction_reversed, top_card>>

\* a reverse that sets the direction instead of toggling it
reverse_set(cap) ==
    /\ phase = "game"
    /\ Len(calls) < 1 + cap
    /\ turn_direction_reversed' = TRUE
    /\ calls' = Append(calls, Call("reverse", << >>, << >>,
                                   current_player_idx, turn_direction_reversed'))
    /\ UNCHANGED <<phase, players, current_player_idx, top_card>>

reverse(cap) ==
    /\ phase = "game"
    /\ Len(calls) < 1 + cap
    /\ turn_direction_reversed' = ~ turn_direction_reversed
    /\ calls' = Append(calls, Call("reverse", << >>, << >>,
                                   current_player_idx, turn_direction_reversed'))
    /\ UNCHANGED <<phase, players, current_player_idx, top_card>>

\* a play that only checks the index
play_result_unchecked(card_index) ==
    IF card_index >= Len(hand) THEN <<"Err", "InvalidCardIndex">>
    ELSE <<"Ok">>

play_result(card_index) ==
    IF card_index >= Len(hand) THEN <<"Err", "InvalidCardIndex">>
    ELSE IF is_playable_on(hand[card_index + 1], top_card[1]) THEN <<"Ok">>
    ELSE <<"Err", "CardUnplayable">>

play_at(card_index) ==
    LET result == play_result(card_index)
    IN  /\ IF result = <<"Ok">>
           THEN /\ top_card' = Some(hand[card_index + 1])
                /\ players' = with_hand(vec_remove(hand, card_index))
           ELSE UNCHANGED <<top_card, players>>
        /\ calls' = Append(since_prompt, Call("play", <<card_index>>, result,
                                       current_player_idx, turn_direction_reversed))

play ==
    /\ phase = "game"
    /\ Len(calls) < 1 + MaxOps
    /\ \E card_index \in 0..(Len(hand) + 1) : play_at(card_index)
    /\ UNCHANGED <<phase, current_player_idx, turn_direction_reversed>>

\* a draw whose card always goes to the hand
draw_one_always_keep(card) ==
    /\ players' = with_hand(Append(hand, card))
    /\ calls' = Append(since_prompt, Call("draw_one", <<card>>, Some(card),
                                   current_player_idx, turn_direction_reversed))
    /\ UNCHANGED top_card

\* draw_one once the deck has produced card
draw_one_with(card) ==
    IF is_playable_on(card, top_card[1])
    THEN /\ top_card' = Some(card)
         /\ calls' = Append(since_prompt, Call("draw_one", <<card>>, None,
                                        current_player_idx, turn_direction_reversed))
         /\ UNCHANGED players
    ELSE /\ players' = with_hand(Append(hand, card))
         /\ calls' = Append(since_prompt, Call("draw_one", <<card>>, Some(card),
                                        current_player_idx, turn_direction_reversed))
         /\ UNCHANGED top_card

draw_one ==
    /\ phase = "game"
    /\ Len(calls) < 1 + MaxOps
    /\ \E card_seed \in DrawSeeds : draw_one_with(draw(card_seed))
    /\ UNCHANGED <<phase, current_player_idx, turn_direction_reversed>>

\* draw_multiple once the deck has produced the cards of seeds
draw_multiple_of(number_of_cards, seeds) ==
    /\ players' = with_hand(push_draws(hand, seeds, number_of_cards))
    /\ calls' = Append(calls, Call("draw_multiple", <<number_of_cards>>, << >>,
                                   current_player_idx, turn_direction_reversed))

draw_multiple ==
    /\ phase = "game"
    /\ Len(calls) < 1 + MaxOps
    /\ \E number_of_cards \in DrawCounts, seeds \in SeedRuns :
         draw_multiple_of(number_of_cards, seeds)
    /\ UNCHANGED <<phase, current_player_idx, turn_direction_reversed, top_card>>

\* a colour selection that does not look at the type of the top card
colored_any(top, color) ==
    IF top # None
    THEN Some(Card(top[1].card_type, color))
    ELSE top

colored(top, color) ==
    IF top # None /\ (top[1].card_type = Wildcard \/ top[1].card_type = DrawFourWildcard)
    THEN Some(Card(top[1].card_type, color))
    ELSE top

set_wildcard_color_to(color) ==
    /\ top_card' = colored(top_card, color)
    /\ calls' = Append(calls, Call("set_wildcard_color", <<color>>, << >>,
                                   current_player_idx, turn_direction_reversed))

set_wildcard_color ==
    /\ phase = "game"
    /\ Len(calls) < 1 + MaxOps
    /\ \E color \in Colors : set_wildcard_color_to(color)
    /\ UNCHANGED <<phase, players, current_player_idx, turn_direction_reversed>>

\* a client other than main(): main() stays where it is
Next ==
    /\ \/ add_player
       \/ Lobby_start
       \/ next_turn(MaxOps)
       \/ reverse(MaxOps)
       \/ play
       \/ draw_one
       \/ draw_multiple
       \/ set_wildcard_color
    /\ UNCHANGED <<pc, inputs>>

Spec == Init /\ [][Next]_vars

(***************************************************************************)
(* The card model alone: is_playable_on applied to every pair of cards.    *)
(***************************************************************************)
\* the cards the deck produces
DeckCards == { draw(card_seed) : card_seed \in 0..SeedMax }

\* and the wildcards once their colour is picked
AllCards ==
    DeckCards \cup
    { Card(t, c) : t \in {Wildcard, DrawFourWildcard}, c \in Colors \ {"Unpicked"} }

InitCard ==
    /\ phase = "cards"
    /\ players = << >>
    /\ current_player_idx = 0
    /\ turn_direction_reversed = FALSE
    /\ top_card = None
    /\ calls = << >>
    /\ pc = "username"
    /\ inputs = 0

is_playable_on_call ==
    /\ phase = "cards"
    /\ calls = << >>
    /\ \E candidate \in AllCards, reference \in AllCards :
         calls' = <<Call("is_playable_on", <<candidate, reference>>,
                         <<is_playable_on(candidate, reference)>>, 0, FALSE)>>
    /\ UNCHANGED <<phase, players, current_player_idx, turn_direction_reversed, top_card,
                   pc, inputs>>

\* one draw from a new deck, for every value the generator may give
draw_call ==
    /\ phase = "cards"
    /\ calls = << >>
    /\ \E card_seed \in 0..SeedMax :
         calls' = <<Call("draw", <<card_seed>>, <<draw(card_seed)>>, 0, FALSE)>>
    /\ UNCHANGED <<phase, players, current_player_idx, turn_direction_reversed, top_card,
                   pc, inputs>>

NextCard ==
    \/ is_playable_on_call
    \/ draw_call

SpecCard == InitCard /\ [][NextCard]_vars

\* a client that, once the game is started, only drives the turn order
NextTurn ==
    /\ \/ add_player
       \/ Lobby_start
       \/ next_turn(MaxTurnCalls)
       \/ reverse(MaxTurnCalls)
    /\ UNCHANGED <<pc, inputs>>

SpecTurn == Init /\ [][NextTurn]_vars

(***************************************************************************)
(* main(): the terminal client. pc names the call site main() has reached; *)
(* a step is the read of one line, or one call on the Lobby or the Game,   *)
(* with the branch main() takes on its result.                             *)
(***************************************************************************)
\* the colours of the answers "1" to "4" of pick_wildcard_color
ColorChoices == {"Red", "Green", "Blue", "Yellow"}

\* usize::MAX, what 0 - 1 wraps to in a build without overflow checks
UsizeMax == 2147483647

\* the arm of the match on the starting top card
after_start(top) ==
    IF top.card_type = Skip THEN "start_skip"
    ELSE IF top.card_type = Reverse THEN "start_reverse"
    ELSE IF top.card_type = DrawTwo THEN "start_draw"
    ELSE IF top.card_type = Wildcard THEN "start_color"
    ELSE "prompt"

\* a main() that asks for the colour of a Wildcard only
after_play_four_unpicked(cards, top) ==
    IF Len(cards) = 0 THEN "done"
    ELSE IF top.card_type = Reverse THEN "turn_reverse"
    ELSE IF top.card_type = Wildcard THEN "turn_color"
    ELSE "advance"

\* a main() that does not look for a winner
after_play_no_winner(cards, top) ==
    IF top.card_type = Reverse THEN "turn_reverse"
    ELSE IF top.card_type \in {Wildcard, DrawFourWildcard} THEN "turn_color"
    ELSE "advance"

\* what follows a play or a draw that put a card on top: the winner check,
\* then the first match on the top card
after_play(cards, top) ==
    IF Len(cards) = 0 THEN "done"
    ELSE IF top.card_type = Reverse THEN "turn_reverse"
    ELSE IF top.card_type \in {Wildcard, DrawFourWildcard} THEN "turn_color"
    ELSE "advance"

\* a second match that gives two cards for either penalty
after_advance_two_cards(top, number_of_players) ==
    IF top.card_type = Skip THEN "skip"
    ELSE IF top.card_type = Reverse /\ number_of_players = 2 THEN "skip"
    ELSE IF top.card_type \in {DrawTwo, DrawFourWildcard} THEN "draw_two"
    ELSE "prompt"

\* a second match without the arm of Skip
after_advance_no_skip(top, number_of_players) ==
    IF top.card_type = Reverse /\ number_of_players = 2 THEN "skip"
    ELSE IF top.card_type = DrawTwo THEN "draw_two"
    ELSE IF top.card_type = DrawFourWildcard THEN "draw_four"
    ELSE "prompt"

\* a second match that skips after a Reverse whatever the number of players
\* is
after_advance_reverse_skips(top, number_of_players) ==
    IF top.card_type \in {Skip, Reverse} THEN "skip"
    ELSE IF top.card_type = DrawTwo THEN "draw_two"
    ELSE IF top.card_type = DrawFourWildcard THEN "draw_four"
    ELSE "prompt"

\* the second match on the top card, after next_turn()
after_advance(top, number_of_players) ==
    IF top.card_type = Skip THEN "skip"
    ELSE IF top.card_type = Reverse /\ number_of_players = 2 THEN "skip"
    ELSE IF top.card_type = DrawTwo THEN "draw_two"
    ELSE IF top.card_type = DrawFourWildcard THEN "draw_four"
    ELSE "prompt"

\* a user name is read and given to add_player; the menu is shown once two
\* players are registered, a refused name is asked for again
main_username(names) ==
    /\ pc = "username"
    /\ add_player_from(names)
    /\ pc' = IF calls'[Len(calls')].val = <<TRUE>> /\ Len(players') >= 2
             THEN "menu" ELSE "username"
    /\ UNCHANGED inputs

\* the answer "1" at the menu
main_menu_add ==
    /\ pc = "menu"
    /\ Len(calls) < MaxLobbyCalls
    /\ pc' = "username"
    /\ UNCHANGED <<phase, players, current_player_idx, turn_direction_reversed, top_card,
                   calls, inputs>>

\* any answer but "1" and "2" at the menu: the menu is shown again
main_menu_retry ==
    /\ pc = "menu"
    /\ UNCHANGED vars

\* the answer "2" at the menu: game.start().unwrap()
main_start(runs, top_seeds) ==
    /\ pc = "menu"
    /\ Lobby_start_from(runs, RunsOf(top_seeds))
    /\ pc' = after_start(top_card'[1])
    /\ UNCHANGED inputs

\* reverse(&mut game) of main.rs; main() bounds the calls of an iteration
\* itself, so the bound given here and below is the length of the log
main_reverse ==
    /\ pc \in {"start_reverse", "turn_reverse"}
    /\ reverse(Len(calls))
    /\ pc' = IF pc = "start_reverse" THEN "start_skip" ELSE "advance"
    /\ UNCHANGED inputs

\* pick_wildcard_color: lines are read until one is "1" to "4"
pick_wildcard_color(colors) ==
    /\ pc \in {"start_color", "turn_color"}
    /\ \E color \in colors : set_wildcard_color_to(color)
    /\ pc' = IF pc = "start_color" THEN "prompt" ELSE "advance"
    /\ UNCHANGED <<phase, players, current_player_idx, turn_direction_reversed, inputs>>

\* draw(&mut game, n) of main.rs
main_draw(runs) ==
    /\ pc \in {"start_draw", "draw_two", "draw_four"}
    /\ \E seeds \in runs : draw_multiple_of(IF pc = "draw_four" THEN 4 ELSE 2, seeds)
    /\ pc' = IF pc = "start_draw" THEN "start_skip" ELSE "skip"
    /\ UNCHANGED <<phase, current_player_idx, turn_direction_reversed, top_card, inputs>>

\* skip_turn(&mut game)
skip_turn ==
    /\ pc \in {"start_skip", "skip"}
    /\ next_turn(Len(calls))
    /\ pc' = "prompt"
    /\ UNCHANGED inputs

\* game.next_turn() after a card went on top
main_advance ==
    /\ pc = "advance"
    /\ next_turn(Len(calls))
    /\ pc' = after_advance(top_card[1], Len(players))
    /\ UNCHANGED inputs

\* a turn that ends on a kept card as a turn that put a card on top does
main_unable_with_effects ==
    /\ pc = "unable"
    /\ next_turn(Len(calls))
    /\ pc' = after_advance(top_card[1], Len(players))
    /\ UNCHANGED inputs

\* game.next_turn() after a drawn card was kept
main_unable ==
    /\ pc = "unable"
    /\ next_turn(Len(calls))
    /\ pc' = "prompt"
    /\ UNCHANGED inputs

\* the answer "draw" at the card prompt
main_input_draw(cap, seeds) ==
    /\ pc = "prompt"
    /\ inputs < cap
    /\ inputs' = inputs + 1
    /\ \E card_seed \in seeds : draw_one_with(draw(card_seed))
    /\ pc' = IF calls'[Len(calls')].val = None
             THEN after_play(players'[current_player_idx + 1].cards, top_card'[1])
             ELSE "unable"
    /\ UNCHANGED <<phase, current_player_idx, turn_direction_reversed>>

\* game.play(choice - 1) and the branch on its result
main_play(card_index) ==
    /\ play_at(card_index)
    /\ pc' = IF calls'[Len(calls')].val = <<"Ok">>
             THEN after_play(players'[current_player_idx + 1].cards, top_card'[1])
             ELSE "prompt"
    /\ UNCHANGED <<phase, current_player_idx, turn_direction_reversed>>

\* a number at the card prompt. choice - 1 on the number 0 overflows: the
\* program panics where the build checks overflow and calls play(usize::MAX)
\* where it does not
main_input_choice(cap, choices) ==
    /\ pc = "prompt"
    /\ inputs < cap
    /\ inputs' = inputs + 1
    /\ \E choice \in choices :
         IF choice = 0
         THEN \/ /\ pc' = "aborted"
                 /\ calls' = since_prompt
                 /\ UNCHANGED <<phase, players, current_player_idx,
                                turn_direction_reversed, top_card>>
              \/ main_play(UsizeMax)
         ELSE main_play(choice - 1)

\* a line that is neither "draw" nor a number: the error message of
\* InvalidCardIndex, and the prompt again
main_input_text(cap) ==
    /\ pc = "prompt"
    /\ inputs < cap
    /\ inputs' = inputs + 1
    /\ calls' = since_prompt
    /\ UNCHANGED <<phase, players, current_player_idx, turn_direction_reversed, top_card,
                   pc>>

\* the numbers tried at the card prompt: 0, every position of the hand, and
\* the first number beyond it
Choices == 0..(Len(hand) + 1)

NextMain ==
    \/ main_username(Names)
    \/ main_menu_add
    \/ main_menu_retry
    \/ main_start(SeedRuns, MainTopSeeds)
    \/ main_reverse
    \/ pick_wildcard_color(ColorChoices)
    \/ main_draw(SeedRuns)
    \/ skip_turn
    \/ main_advance
    \/ main_unable
    \/ main_input_draw(MaxInputs, MainDrawSeeds)
    \/ main_input_choice(MaxInputs, Choices)
    \/ main_input_text(MaxInputs)

SpecMain == Init /\ [][NextMain]_vars

\* main() followed to the end of a game: two players, a generator that deals
\* one of them seven Skip cards, and few answers at the card prompt
NextWin ==
    \/ main_username(WinNames)
    \/ main_menu_add
    \/ main_menu_retry
    \/ main_start(WinRuns, WinTopSeeds)
    \/ main_reverse
    \/ pick_wildcard_color({"Red"})
    \/ main_draw(WinRuns)
    \/ skip_turn
    \/ main_advance
    \/ main_unable
    \/ main_input_draw(MaxWinInputs, WinDrawSeeds)
    \/ main_input_choice(MaxWinInputs, {1})
    \/ main_input_text(MaxWinInputs)

SpecWin == Init /\ [][NextWin]_vars

(***************************************************************************)
(* Vocabulary of the properties.                                           *)
(***************************************************************************)
last == calls[Len(calls)]

\* the step is a call of op on the Game (the log grew by that call)
Called(op) ==
    /\ phase = "game"
    /\ phase' = "game"
    /\ Len(calls') = Len(calls) + 1
    /\ calls'[Len(calls')].op = op

IsWild(card) == card.card_type.tag \in {"Wildcard", "DrawFourWildcard"}

OthersUnchanged ==
    \A q \in 1..Len(players) : q # current_player_idx + 1 => players'[q] = players[q]

NamesKept ==
    /\ Len(players') = Len(players)
    /\ \A q \in 1..Len(players) : players'[q].name = players[q].name

(***************************************************************************)
(* Properties of play and draw_one.                                        *)
(***************************************************************************)
\* C1: whenever play(i) succeeds for the current player, that player's hand
\* gets shorter by exactly one card, the new top card is the card that was at
\* index i, the other cards of the hand keep their order (those above i move
\* down by one), and the other hands, the current player index and the turn
\* direction do not change.
C1_PlaySucceeds ==
    [][ (Called("play") /\ last'.val = <<"Ok">>) =>
          LET i == last'.arg[1]
              p == current_player_idx + 1
              old == players[p].cards
              new == players'[p].cards
          IN  /\ i < Len(old)
              /\ Len(new) = Len(old) - 1
              /\ top_card' = Some(old[i + 1])
              /\ \A k \in 1..Len(new) : new[k] = IF k <= i THEN old[k] ELSE old[k + 1]
              /\ NamesKept
              /\ OthersUnchanged
              /\ current_player_idx' = current_player_idx
              /\ turn_direction_reversed' = turn_direction_reversed ]_vars

\* a play has just succeeded on a card with cards before and after it in the hand
C1_Witness ==
    /\ phase = "game"
    /\ last.op = "play"
    /\ last.val = <<"Ok">>
    /\ last.arg[1] >= 1
    /\ last.arg[1] < Len(hand)

\* C2: play(i) with i at or beyond the hand length returns InvalidCardIndex, and
\* play(i) on a card that is not playable on the top card returns CardUnplayable;
\* a play that returns an error leaves the hands, the top card, the current
\* player index and the turn direction as they were.
C2_PlayRejected ==
    [][ Called("play") =>
          LET i == last'.arg[1]
              res == last'.val
          IN  /\ (i >= Len(hand) => res = <<"Err", "InvalidCardIndex">>)
              /\ (i < Len(hand) /\ ~ is_playable_on(hand[i + 1], top_card[1])
                    => res = <<"Err", "CardUnplayable">>)
              /\ (res[1] = "Err" =>
                    /\ players' = players
                    /\ top_card' = top_card
                    /\ current_player_idx' = current_player_idx
                    /\ turn_direction_reversed' = turn_direction_reversed) ]_vars

\* both errors have been returned, with cards in the hand
C2_Witness ==
    /\ phase = "game"
    /\ Len(hand) > 0
    /\ \E j, k \in 2..Len(calls) :
         /\ calls[j].op = "play"
         /\ calls[j].val = <<"Err", "InvalidCardIndex">>
         /\ calls[k].op = "play"
         /\ calls[k].val = <<"Err", "CardUnplayable">>

\* C3: draw_one() never makes a hand shorter. A drawn card that is playable on
\* the top card becomes the top card, no hand changes and the result is None;
\* a drawn card that is not playable is appended to the current player's hand,
\* the top card stays and the result is that card. The other hands, the
\* current player index and the turn direction do not change.
C3_DrawOne ==
    [][ Called("draw_one") =>
          LET card == last'.arg[1]
              p == current_player_idx + 1
          IN  /\ NamesKept
              /\ \A q \in 1..Len(players) :
                   Len(players'[q].cards) >= Len(players[q].cards)
              /\ IF is_playable_on(card, top_card[1])
                 THEN /\ top_card' = Some(card)
                      /\ players' = players
                      /\ last'.val = None
                 ELSE /\ players'[p].cards = Append(players[p].cards, card)
                      /\ top_card' = top_card
                      /\ last'.val = Some(card)
              /\ OthersUnchanged
              /\ current_player_idx' = current_player_idx
              /\ turn_direction_reversed' = turn_direction_reversed ]_vars

\* one draw has been played at once and another has been kept
C3_Witness ==
    /\ phase = "game"
    /\ \E j, k \in 2..Len(calls) :
         /\ calls[j].op = "draw_one"
         /\ calls[j].val = None
         /\ calls[k].op = "draw_one"
         /\ calls[k].val # None
         /\ Len(hand) = HandSize + 1

(***************************************************************************)
(* Properties of the lobby.                                                *)
(***************************************************************************)
\* C4: Lobby.start() returns NotEnoughPlayers when 0 or 1 players are
\* registered; with 2 or more it returns a Game in which every player holds
\* exactly 7 cards, the players are in registration order, the current
\* player index is within range, the direction is not reversed, and the top
\* card is set and is not a DrawFourWildcard.
C4_Start ==
    [][ (phase = "lobby" /\ phase' # "lobby") =>
          IF Len(players) < 2
          THEN /\ phase' = "consumed"
               /\ last'.op = "start"
               /\ last'.val = <<"Err", "NotEnoughPlayers">>
          ELSE /\ phase' = "game"
               /\ last'.op = "start"
               /\ last'.val = <<"Ok">>
               /\ NamesKept
               /\ \A q \in 1..Len(players') : Len(players'[q].cards) = 7
               /\ current_player_idx' \in 0..(Len(players') - 1)
               /\ turn_direction_reversed' = FALSE
               /\ top_card' # None
               /\ top_card'[1].card_type # DrawFourWildcard ]_vars

\* a game of three players has just been started, not by the first one,
\* with the players in an order other than the order of the names
C4_Witness ==
    /\ phase = "game"
    /\ Len(calls) = 1
    /\ Len(players) = 3
    /\ players[1].name = "a"
    /\ players[3].name = ""
    /\ current_player_idx = 2

\* C8: add_player(name) returns false and leaves the registry as it was when
\* name equals, case-sensitively, a registered name; otherwise it returns true
\* and appends one player with an empty hand. So the registered names are
\* pairwise distinct and the number of players is the number of successful
\* calls.
C8_AddPlayer ==
    [][ (phase = "lobby" /\ phase' = "lobby" /\ Len(calls') = Len(calls) + 1) =>
          LET username == last'.arg[1]
              taken == \E k \in 1..Len(players) : players[k].name = username
          IN  /\ last'.op = "add_player"
              /\ IF taken
                 THEN last'.val = <<FALSE>> /\ players' = players
                 ELSE /\ last'.val = <<TRUE>>
                      /\ players' = Append(players, [name |-> username, cards |-> << >>])
              /\ \A j, k \in 1..Len(players') :
                   j # k => players'[j].name # players'[k].name
              /\ Len(players') =
                   Cardinality({ k \in 1..Len(calls') : calls'[k].val = <<TRUE>> }) ]_vars

\* a name was refused and a name that differs from a registered one only by
\* case was accepted
C8_Witness ==
    /\ phase = "lobby"
    /\ Len(players) = 2
    /\ players[1].name = "A"
    /\ players[2].name = "a"
    /\ \E k \in 1..Len(calls) : calls[k].val = <<FALSE>>

(***************************************************************************)
(* Properties of the card model.                                           *)
(***************************************************************************)
\* C5: is_playable_on(candidate, reference) is true exactly when the
\* candidate is a Wildcard or DrawFourWildcard, or both cards are the same
\* special type, or both are numbers of equal value, or the colours are
\* equal. So a wildcard goes on any card, cards of equal type and colour go
\* on each other, and a card that is no wildcard does not go on a wildcard
\* whose colour is still Unpicked.
C5_Playable ==
    (phase = "cards" /\ calls # << >> /\ last.op = "is_playable_on") =>
        LET candidate == last.arg[1]
            reference == last.arg[2]
            result == last.val[1]
            t1 == candidate.card_type.tag
            t2 == reference.card_type.tag
        IN  /\ result <=>
                 \/ t1 \in {"Wildcard", "DrawFourWildcard"}
                 \/ t1 \in {"Skip", "Reverse", "DrawTwo"} /\ t2 = t1
                 \/ /\ t1 = "Number"
                    /\ t2 = "Number"
                    /\ candidate.card_type.value = reference.card_type.value
                 \/ candidate.color = reference.color
            /\ (IsWild(candidate) => result)
            /\ (candidate = reference => result)
            /\ (~ IsWild(candidate) /\ IsWild(reference) /\ reference.color = "Unpicked"
                  => ~ result)

\* a number was offered on a number of another value and another colour,
\* and refused
C5_Witness ==
    /\ phase = "cards"
    /\ calls # << >>
    /\ last.op = "is_playable_on"
    /\ last.arg[1] = Card(Number(5), "Red")
    /\ last.arg[2] = Card(Number(7), "Blue")
    /\ last.val = <<FALSE>>

(***************************************************************************)
(* Properties of the turn order.                                           *)
(***************************************************************************)
\* the calls s+1 .. s+n of the log are all calls of next_turn
NextTurnRun(s, n) ==
    /\ s >= 1
    /\ s + n <= Len(calls)
    /\ \A k \in (s + 1)..(s + n) : calls[k].op = "next_turn"

\* C6: for every number N >= 2 of players, every starting index and either
\* direction, N calls of next_turn() bring current_player_idx back to its
\* value, each call moves one step in the current direction, wrapping around,
\* and the index stays within 0..N-1.
C6_NextTurn ==
    phase = "game" =>
        LET N == Len(players)
        IN  /\ N >= 2
            /\ current_player_idx \in 0..(N - 1)
            /\ \A k \in 2..Len(calls) :
                 calls[k].op = "next_turn" =>
                    /\ calls[k].idx \in 0..(N - 1)
                    /\ calls[k].rev = calls[k - 1].rev
                    /\ calls[k].idx =
                         (calls[k - 1].idx + (IF calls[k - 1].rev THEN N - 1 ELSE 1)) % N
            /\ \A s \in 1..Len(calls) :
                 NextTurnRun(s, N) => calls[s + N].idx = calls[s].idx

\* three players, counter clockwise, three calls of next_turn from index 1
C6_Witness ==
    /\ phase = "game"
    /\ Len(players) = 3
    /\ \E s \in 1..Len(calls) :
         /\ NextTurnRun(s, 3)
         /\ calls[s].rev
         /\ calls[s].idx = 1

\* what the log shows of reverse(): two calls in a row restore the direction,
\* and next_turn, reverse, next_turn ends on the index it started from
ReversePattern ==
    /\ \A k \in 2..(Len(calls) - 1) :
         (calls[k].op = "reverse" /\ calls[k + 1].op = "reverse") =>
            /\ calls[k + 1].rev = calls[k - 1].rev
            /\ calls[k + 1].idx = calls[k - 1].idx
    /\ \A k \in 2..(Len(calls) - 2) :
         ( /\ calls[k].op = "next_turn"
           /\ calls[k + 1].op = "reverse"
           /\ calls[k + 2].op = "next_turn" ) =>
            calls[k + 2].idx = calls[k - 1].idx

\* C7: reverse() only toggles the turn direction, changing no index, hand or
\* top card; two calls restore the direction; and next_turn(), reverse(),
\* next_turn() ends on the index it started from, for every number of
\* players and every starting index.
C7_Reverse ==
    [][ /\ Called("reverse") =>
            /\ turn_direction_reversed' = ~ turn_direction_reversed
            /\ current_player_idx' = current_player_idx
            /\ players' = players
            /\ top_card' = top_card
        /\ phase' = "game" => ReversePattern' ]_vars

\* three players, index 0, clockwise: next_turn gives 1, reverse and
\* next_turn give 0; then reverse again gives back clockwise
C7_Witness ==
    /\ phase = "game"
    /\ Len(players) = 3
    /\ Len(calls) = 5
    /\ calls[1].idx = 0
    /\ calls[2].op = "next_turn"
    /\ calls[2].idx = 1
    /\ calls[3].op = "reverse"
    /\ calls[4].op = "next_turn"
    /\ calls[4].idx = 0
    /\ calls[5].op = "reverse"
    /\ turn_direction_reversed = FALSE

(***************************************************************************)
(* Properties of the colours.                                              *)
(***************************************************************************)
\* C9: set_wildcard_color(color) replaces only the colour of the top card,
\* keeping its type, when the top card is a Wildcard or DrawFourWildcard, and
\* does nothing when it is of another type; the hands, the current player
\* index and the turn direction do not change.
C9_SetWildcardColor ==
    [][ Called("set_wildcard_color") =>
          LET color == last'.arg[1]
              top == top_card[1]
          IN  /\ top_card' # None
              /\ IF top.card_type.tag \in {"Wildcard", "DrawFourWildcard"}
                 THEN /\ top_card'[1].card_type = top.card_type
                      /\ top_card'[1].color = color
                 ELSE top_card' = top_card
              /\ players' = players
              /\ current_player_idx' = current_player_idx
              /\ turn_direction_reversed' = turn_direction_reversed ]_vars

\* a colour was picked for a wildcard on top, and picking a colour then left
\* the card that was played on it alone
C9_Witness ==
    /\ phase = "game"
    /\ Len(calls) = 3
    /\ calls[2].op = "set_wildcard_color"
    /\ calls[2].arg = <<"Blue">>
    /\ calls[3].op = "set_wildcard_color"
    /\ calls[3].arg = <<"Red">>
    /\ top_card = Some(Card(Wildcard, "Red"))

PickedColors == {"Red", "Green", "Blue", "Yellow"}

\* every card of a hand is a card as the deck makes it
HandColors ==
    \A q \in 1..Len(players) : \A k \in 1..Len(players[q].cards) :
        LET card == players[q].cards[k]
        IN  IF IsWild(card) THEN card.color = "Unpicked" ELSE card.color \in PickedColors

\* a hand after a step is the hand before it, or that hand with cards
\* appended, or that hand with one card taken out
HandStep(old, new) ==
    \/ new = old
    \/ Len(new) > Len(old) /\ SubSeq(new, 1, Len(old)) = old
    \/ \E i \in 1..Len(old) :
         new = [k \in 1..(Len(old) - 1) |-> IF k < i THEN old[k] ELSE old[k + 1]]

\* C10: in every state of a game, every card that is no wildcard, in a hand
\* or on top, has one of the colours Red, Green, Blue, Yellow, and every
\* wildcard in a hand has the colour Unpicked; no step changes a card of a
\* hand, and a wildcard on top gets a colour other than Unpicked only from
\* set_wildcard_color, called on that wildcard.
C10_Colors ==
    [][ phase' = "game" =>
          /\ HandColors'
          /\ ~ IsWild(top_card'[1]) => top_card'[1].color \in PickedColors
          /\ phase = "game" =>
               /\ \A q \in 1..Len(players) :
                    HandStep(players[q].cards, players'[q].cards)
               /\ ( /\ top_card' # top_card
                    /\ IsWild(top_card'[1])
                    /\ top_card'[1].color # "Unpicked" ) =>
                      /\ last'.op = "set_wildcard_color"
                      /\ IsWild(top_card[1])
                      /\ top_card'[1].card_type = top_card[1].card_type ]_vars

\* a wildcard with a picked colour is on top while a hand holds a wildcard,
\* after a wildcard was played from a hand
C10_Witness ==
    /\ phase = "game"
    /\ Len(calls) = 3
    /\ calls[2].op = "play"
    /\ calls[2].val = <<"Ok">>
    /\ calls[3].op = "set_wildcard_color"
    /\ top_card = Some(Card(DrawFourWildcard, "Green"))
    /\ \E k \in 1..Len(hand) : hand[k] = Card(Wildcard, "Unpicked")

(***************************************************************************)
(* Properties of main().                                                   *)
(***************************************************************************)
\* the step reads a line at the card prompt
Answered == pc = "prompt" /\ inputs' = inputs + 1

\* the step is a play of main() that succeeded
PlayedOk ==
    /\ Answered
    /\ calls' # << >>
    /\ calls'[Len(calls')].op = "play"
    /\ calls'[Len(calls')].val = <<"Ok">>
    /\ pc' # "aborted"

\* C12: every player registered in the lobby, and so every player of a
\* started game, has a name that is not the empty string.
C12_NamesNonEmpty ==
    \A k \in 1..Len(players) : players[k].name # ""

\* C11: the game ends exactly when the current player's hand becomes empty
\* after a successful play; that player is the winner and no turn advance,
\* reverse, colour pick or penalty draw follows; and whenever a player is
\* asked to move, every player holds at least one card.
C11_GameEnds ==
    [][ /\ pc # "done"
        /\ pc' = "done" <=> (PlayedOk /\ players'[current_player_idx' + 1].cards = << >>)
        /\ pc' = "done" =>
              /\ Len(calls') = 1
              /\ calls'[1].idx = current_player_idx'
              /\ current_player_idx' = current_player_idx
              /\ turn_direction_reversed' = turn_direction_reversed
              /\ \A q \in 1..Len(players) :
                   q # current_player_idx + 1 => players'[q] = players[q]
        /\ pc' = "prompt" =>
              \A q \in 1..Len(players') : Len(players'[q].cards) >= 1 ]_vars

\* a player has won with seven plays while the other one holds cards
C11_Witness ==
    /\ pc = "done"
    /\ inputs = 7
    /\ hand = << >>
    /\ \E q \in 1..Len(players) : Len(players[q].cards) >= 7

\* what main() does with a number at the card prompt, the panic aside: the
\* index given to play is the number less one (usize::MAX for the number 0);
\* an index within the hand plays that card if it goes on the top card, and
\* any other index is refused with InvalidCardIndex, nothing changes and the
\* same player is asked again
ChoiceHandled ==
    (Answered /\ pc' # "aborted" /\ calls' # << >> /\ calls'[Len(calls')].op = "play") =>
        LET i == calls'[1].arg[1]
            res == calls'[1].val
        IN  /\ Len(calls') = 1
            /\ i \in 0..Len(hand) \cup {UsizeMax}
            /\ IF i < Len(hand)
               THEN /\ res = <<"Ok">> <=> is_playable_on(hand[i + 1], top_card[1])
                    /\ res = <<"Ok">> =>
                          /\ top_card' = Some(hand[i + 1])
                          /\ Len(players'[current_player_idx + 1].cards) = Len(hand) - 1
                    /\ res # <<"Ok">> => res = <<"Err", "CardUnplayable">>
               ELSE res = <<"Err", "InvalidCardIndex">>
            /\ res # <<"Ok">> =>
                  /\ players' = players
                  /\ top_card' = top_card
                  /\ current_player_idx' = current_player_idx
                  /\ turn_direction_reversed' = turn_direction_reversed
                  /\ pc' = "prompt"

\* C20: a number c at the card prompt is a 1-based position of the hand:
\* with 1 <= c <= hand length the card hand[c-1] is played, and every other
\* number, 0 included, is refused as InvalidCardIndex with the game as it
\* was and the same player asked again; the game is never aborted.
C20_NumericChoice ==
    [][ /\ ChoiceHandled
        /\ pc' # "aborted" ]_vars

\* the same without the number 0 never aborting
C20_ChoiceHandled ==
    [][ ChoiceHandled ]_vars

\* one step from index i among n players in the direction rev
Step(i, rev, n) == (i + (IF rev THEN n - 1 ELSE 1)) % n

\* the operations of the log, in order
Ops == [k \in 1..Len(calls) |-> calls[k].op]

\* main() is back at the card prompt after a turn in which a card went on
\* top and nobody won: by a play, or by a draw that was played at once
Placed ==
    /\ phase = "game"
    /\ pc = "prompt"
    /\ calls # << >>
    /\ \/ calls[1].op = "play" /\ calls[1].val = <<"Ok">>
       \/ calls[1].op = "draw_one" /\ calls[1].val = None

TopType == top_card[1].card_type

\* the turn that ended at this prompt: a penalty of n cards for the player
\* after P, and the player two steps from P is asked
PenaltyTurn(n) ==
    LET N == Len(players)
        P == calls[1].idx
        rev == calls[1].rev
        d == Len(calls) - 1
    IN  /\ Ops = IF n = 4
                 THEN <<calls[1].op, "set_wildcard_color", "next_turn",
                        "draw_multiple", "next_turn">>
                 ELSE <<calls[1].op, "next_turn", "draw_multiple", "next_turn">>
        /\ calls[d].arg = <<n>>
        /\ calls[d].idx = Step(P, rev, N)
        /\ calls[d - 1].idx = Step(P, rev, N)
        /\ current_player_idx = Step(Step(P, rev, N), rev, N)
        /\ turn_direction_reversed = rev

\* C13: when a DrawTwo (a DrawFourWildcard) becomes the top card by a play
\* that does not win or by a draw played at once, by player P, the next
\* player in the current direction gets exactly 2 (4) cards appended to the
\* hand, with no check of playability, and takes no turn; the penalty draw
\* leaves the top card and the other hands alone; and the next player asked
\* is two steps from P in the current direction.
C13_PenaltyDraw ==
    [][ /\ Called("draw_multiple") =>
              LET n == last'.arg[1]
                  p == current_player_idx + 1
              IN  /\ n = IF TopType = DrawFourWildcard THEN 4 ELSE 2
                  /\ TopType \in {DrawTwo, DrawFourWildcard}
                  /\ Len(players'[p].cards) = Len(players[p].cards) + n
                  /\ SubSeq(players'[p].cards, 1, Len(players[p].cards)) = players[p].cards
                  /\ NamesKept
                  /\ OthersUnchanged
                  /\ top_card' = top_card
                  /\ current_player_idx' = current_player_idx
                  /\ turn_direction_reversed' = turn_direction_reversed
        /\ (Placed /\ TopType = DrawTwo => PenaltyTurn(2))'
        /\ (Placed /\ TopType = DrawFourWildcard => PenaltyTurn(4))' ]_vars

\* a DrawFourWildcard was played among three players, turning clockwise; the
\* four cards of the penalty went to the next player, one of them playable on
\* the colour picked; and the third player is asked
C13_Witness ==
    /\ Placed
    /\ calls[1].op = "play"
    /\ TopType = DrawFourWildcard
    /\ top_card[1].color = "Blue"
    /\ Len(players) = 3
    /\ calls[1].idx = 0
    /\ current_player_idx = 2
    /\ Len(players[2].cards) = HandSize + 4
    /\ \E k \in (HandSize + 1)..(HandSize + 4) :
         is_playable_on(players[2].cards[k], top_card[1])

\* C14: when a Skip becomes the top card by a play that does not win or by a
\* draw played at once, by player P, the next player in the current direction
\* takes no turn and draws no card: the next player asked is two steps from
\* P in the current direction, P again among two players, and the direction
\* is as it was.
C14_Skip ==
    [][ /\ Called("next_turn") =>
              /\ players' = players
              /\ top_card' = top_card
              /\ turn_direction_reversed' = turn_direction_reversed
        /\ (Placed /\ TopType = Skip =>
              LET N == Len(players)
                  P == calls[1].idx
                  rev == calls[1].rev
              IN  /\ Ops = <<calls[1].op, "next_turn", "next_turn">>
                  /\ calls[2].idx = Step(P, rev, N)
                  /\ current_player_idx = Step(Step(P, rev, N), rev, N)
                  /\ N = 2 => current_player_idx = P
                  /\ N >= 3 => current_player_idx \notin {P, Step(P, rev, N)}
                  /\ turn_direction_reversed = rev)' ]_vars

\* a Skip was drawn and played at once by the third of three players, and
\* the second one is asked
C14_Witness ==
    /\ Placed
    /\ TopType = Skip
    /\ calls[1].op = "draw_one"
    /\ Len(players) = 3
    /\ calls[1].idx = 2
    /\ current_player_idx = 1
    /\ \A q \in 1..3 : Len(players[q].cards) = HandSize

\* C15: when a Reverse becomes the top card by a play that does not win or
\* by a draw played at once, by player P, the direction is toggled exactly
\* once; among three or more players the next player asked is the neighbour
\* of P in the new direction, the one before P in the old one; among two
\* players P is asked again, as after a skip.
C15_Reverse ==
    (Placed /\ TopType = Reverse) =>
        LET N == Len(players)
            P == calls[1].idx
            rev == calls[1].rev
        IN  /\ Ops = IF N = 2
                     THEN <<calls[1].op, "reverse", "next_turn", "next_turn">>
                     ELSE <<calls[1].op, "reverse", "next_turn">>
            /\ calls[2].idx = P
            /\ calls[2].rev = ~ rev
            /\ turn_direction_reversed = ~ rev
            /\ N >= 3 =>
                  /\ current_player_idx = Step(P, ~ rev, N)
                  /\ Step(current_player_idx, rev, N) = P
            /\ N = 2 => current_player_idx = P

\* the second of three players played a Reverse, clockwise, and the first
\* one is asked
C15_Witness ==
    /\ Placed
    /\ TopType = Reverse
    /\ calls[1].op = "play"
    /\ Len(players) = 3
    /\ calls[1].idx = 1
    /\ ~ calls[1].rev
    /\ current_player_idx = 0

\* main() is at its first card prompt: the log is the one of start()
FirstPrompt ==
    /\ phase = "game"
    /\ pc = "prompt"
    /\ calls # << >>
    /\ calls[1].op = "start"

\* the effects of the starting top card, for the player S that start() made
\* current; reverse_skips says whether a Reverse skips S
StartEffects(reverse_skips) ==
    LET N == Len(players)
        S == calls[1].idx
        next == Step(S, turn_direction_reversed, N)
        dealt == \A q \in 1..N : q # S + 1 => Len(players[q].cards) = HandSize
    IN  /\ dealt
        /\ TopType # DrawFourWildcard
        /\ TopType # Reverse => ~ turn_direction_reversed
        /\ TopType # DrawTwo => Len(players[S + 1].cards) = HandSize
        /\ IF TopType = Skip
           THEN /\ Ops = <<"start", "next_turn">>
                /\ current_player_idx = next
                /\ N = 2 => current_player_idx = 1 - S
           ELSE IF TopType = DrawTwo
           THEN /\ Ops = <<"start", "draw_multiple", "next_turn">>
                /\ calls[2].arg = <<2>>
                /\ calls[2].idx = S
                /\ Len(players[S + 1].cards) = HandSize + 2
                /\ current_player_idx = next
           ELSE IF TopType = Reverse
           THEN /\ turn_direction_reversed
                /\ IF reverse_skips
                   THEN /\ Ops = <<"start", "reverse", "next_turn">>
                        /\ current_player_idx = next
                   ELSE /\ Ops = <<"start", "reverse">>
                        /\ current_player_idx = S
           ELSE IF TopType = Wildcard
           THEN /\ Ops = <<"start", "set_wildcard_color">>
                /\ calls[2].idx = S
                /\ current_player_idx = S
           ELSE /\ Ops = <<"start">>
                /\ current_player_idx = S

\* C16: the starting top card has, once and before the first player is
\* asked, the effects it has in a turn: a Skip skips the starting player (the
\* other player becomes current among two); a DrawTwo makes the starting
\* player draw 2 cards and skips them; a Reverse toggles the direction and
\* skips the starting player only among two players; a Wildcard makes the
\* starting player pick its colour and skips nobody; a Number does nothing.
C16_StartEffects ==
    FirstPrompt => StartEffects(Len(players) = 2)

\* the same with a Reverse that skips the starting player whatever the number
\* of players is
C16_StartEffectsAnyNumber ==
    FirstPrompt => StartEffects(TRUE)

\* C17: whenever a player is asked for a move, at the first turn and later,
\* the colour of the top card is Red, Green, Blue or Yellow: every wildcard
\* that becomes the top card, played, drawn and played at once or drawn as
\* the starting card, gets its colour from the player who put it there,
\* before the turn advances and before the penalty of a DrawFourWildcard;
\* and set_wildcard_color is never called with Unpicked.
C17_ColorPicked ==
    phase = "game" =>
        /\ pc = "prompt" => top_card[1].color \in PickedColors
        /\ top_card[1].color = "Unpicked" =>
              /\ IsWild(top_card[1])
              /\ pc \in {"start_color", "turn_color", "done"}
              /\ Len(calls) = 1
        /\ (FirstPrompt \/ Placed) /\ IsWild(top_card[1]) =>
              /\ Len(calls) >= 2
              /\ calls[2].op = "set_wildcard_color"
        /\ \A k \in 1..Len(calls) :
              calls[k].op = "set_wildcard_color" =>
                 /\ calls[k].arg[1] \in PickedColors
                 /\ k = 2
                 /\ calls[k].idx = calls[1].idx
                 /\ top_card[1].color = calls[k].arg[1]

\* a DrawFourWildcard was drawn and played at once, Green was picked for it,
\* and the player after the next one is asked
C17_Witness ==
    /\ Placed
    /\ calls[1].op = "draw_one"
    /\ top_card = Some(Card(DrawFourWildcard, "Green"))
    /\ Len(calls) = 5

\* a card was drawn and kept in the turn of the log
Kept ==
    /\ phase = "game"
    /\ calls # << >>
    /\ calls[1].op = "draw_one"
    /\ calls[1].val # None

\* the calls that are the effect of a card: they are made only in a turn, or
\* after a start, that put a card on top
EffectsOnce ==
    \A k \in 2..Len(calls) :
        \/ calls[k].op \in {"reverse", "set_wildcard_color", "draw_multiple"}
        \/ calls[k].op = "next_turn" /\ k >= 3
        => \/ calls[1].op = "start"
           \/ calls[1].op = "play" /\ calls[1].val = <<"Ok">>
           \/ calls[1].op = "draw_one" /\ calls[1].val = None

\* C18: when the current player draws a card that is not playable, the turn
\* advances by exactly one step and nothing else happens, whatever the top
\* card is: no skip, reverse, penalty draw or colour pick. So the effect of
\* a Skip, Reverse, DrawTwo or DrawFourWildcard is applied at most once,
\* right after the card becomes the top card, and not again while it stays.
C18_DrawKept ==
    [][ /\ pc = "unable" =>
              /\ Kept
              /\ Called("next_turn")
              /\ players' = players
              /\ top_card' = top_card
              /\ turn_direction_reversed' = turn_direction_reversed
              /\ current_player_idx' =
                    Step(current_player_idx, turn_direction_reversed, Len(players))
              /\ pc' = "prompt"
        /\ (Answered /\ Kept' /\ Len(calls') = 1) =>
              /\ top_card' = top_card
              /\ pc' = "unable"
        /\ (phase = "game" /\ Kept =>
              \/ pc = "unable" /\ Len(calls) = 1
              \/ pc = "prompt" /\ Ops = <<"draw_one", "next_turn">>)'
        /\ (phase = "game" => EffectsOnce)' ]_vars

\* among three players a DrawTwo is on top and its penalty was drawn; the
\* next player asked drew a card, kept it, and the turn went one step on
C18_Witness ==
    /\ Kept
    /\ pc = "prompt"
    /\ TopType = DrawTwo
    /\ Len(players) = 3
    /\ inputs = 2
    /\ current_player_idx = Step(calls[1].idx, turn_direction_reversed, 3)
    /\ \E q \in 1..3 : Len(players[q].cards) = HandSize + 2

(***************************************************************************)
(* Properties of the card source.                                          *)
(***************************************************************************)
\* the colours in the order of the quotient of the seed by 27
SeedColors == <<"Red", "Green", "Blue", "Yellow">>

\* C19: for each of the 108 seeds 0..107, draw() does not fail and gives the
\* card whose type follows the layout of 27 buckets on the seed modulo 27
\* (0 is Number(0), 1..9 Number(v), 10..18 Number(v-9), 19..20 Skip, 21..22
\* Reverse, 23..24 DrawTwo, 25 Wildcard, 26 DrawFourWildcard) and whose
\* colour is Unpicked for the two wildcards and else Red, Green, Blue, Yellow
\* for a quotient by 27 of 0, 1, 2, 3; every Number is within 0..9; and the
\* draw changes nothing in the game.
C19_Draw ==
    (phase = "cards" /\ calls # << >> /\ last.op = "draw") =>
        LET seed == last.arg[1]
            card == last.val[1]
            v == seed % 27
        IN  /\ seed \in 0..107
            /\ card.card_type # Unreachable
            /\ card.color \in Colors
            /\ card.card_type =
                  CASE v = 0 -> Number(0)
                    [] v \in 1..9 -> Number(v)
                    [] v \in 10..18 -> Number(v - 9)
                    [] v \in 19..20 -> Skip
                    [] v \in 21..22 -> Reverse
                    [] v \in 23..24 -> DrawTwo
                    [] v = 25 -> Wildcard
                    [] v = 26 -> DrawFourWildcard
            /\ card.color = IF v \in {25, 26} THEN "Unpicked"
                            ELSE SeedColors[(seed \div 27) + 1]
            /\ card.card_type.tag = "Number" => card.card_type.value \in 0..9
            /\ players = << >>
            /\ top_card = None
            /\ current_player_idx = 0
            /\ ~ turn_direction_reversed

\* the seed 99 gave the Yellow 9
C19_Witness ==
    /\ phase = "cards"
    /\ calls # << >>
    /\ last.op = "draw"
    /\ last.arg = <<99>>
    /\ last.val = <<Card(Number(9), "Yellow")>>
====
